---- MODULE Spec2Model ----
(***************************************************************************)
(* A model of the newsapi client (newsapi/src/lib.rs): the NewsAPI facade  *)
(* with its configuration setters, prepare_url, the blocking fetch, the    *)
(* suspending fetch_async, the error mapper map_response_err and the free  *)
(* function get_articles, run against a nondeterministic HTTP service.     *)
(*                                                                         *)
(* Text is modelled at two levels.  A URL is a sequence of lexemes         *)
(* (<<"https", "://", "newsapi.org", "/", "v2">>), so that parsing and     *)
(* serialising it are real conversions; Flat joins the lexemes into the    *)
(* string the program holds.  An API key is a sequence of characters, so   *)
(* that header validation can look at them.  A response body is either     *)
(* unreadable, readable text that is no JSON, or a JSON object given as    *)
(* its member list.                                                        *)
(***************************************************************************)
EXTENDS Integers, Sequences, FiniteSets, TLC

\* How many fetch_async futures may be alive (suspended at an await) at once.
MaxCalls == 2

(***************************************************************************)
(* Option<String>, Result and the error enum                               *)
(***************************************************************************)
Some(v) == [some |-> TRUE, v |-> v]

NoneStr == [some |-> FALSE, v |-> ""]

\* NewsAPIResponse when a Result holds none (the Err arm carries no response).
NoResponse == [status |-> "", articles |-> <<>>, code |-> NoneStr]

\* enum NewsAPIError: the variant names.
NewsAPIError ==
    {"RequestFailed", "ResponseToStringFailed", "ArticlesParsingFailed",
     "UrlParseFailed", "BadRequest", "AsyncRequestFailed"}

Ok(v) == [ok |-> TRUE, val |-> v, err |-> "", reason |-> ""]

Err(kind) == [ok |-> FALSE, val |-> NoResponse, err |-> kind, reason |-> ""]

\* NewsAPIError::BadRequest(&'static str)
BadRequest(reason) ==
    [ok |-> FALSE, val |-> NoResponse, err |-> "BadRequest", reason |-> reason]

\* The #[from] conversions that the ? operator applies.
FromUreqError == "RequestFailed"

FromIoError == "ResponseToStringFailed"

FromUrlParseError == "UrlParseFailed"

FromReqwestError == "AsyncRequestFailed"

(***************************************************************************)
(* JSON values.  Every value has the same shape, so that any two compare:  *)
(* t is the JSON type, s the text of a string or number, a the items of an *)
(* array (each item the member list of an object).  An object is a         *)
(* sequence of <<name, value>> members.                                    *)
(***************************************************************************)
Str(s) == [t |-> "str", s |-> s, a |-> <<>>]

Num(s) == [t |-> "num", s |-> s, a |-> <<>>]

Null == [t |-> "null", s |-> "", a |-> <<>>]

Arr(items) == [t |-> "arr", s |-> "", a |-> items]

Has(members, name) == \E i \in 1..Len(members) : members[i][1] = name

Get(members, name) ==
    members[CHOOSE i \in 1..Len(members) :
                /\ members[i][1] = name
                /\ \A j \in 1..(i - 1) : members[j][1] # name][2]

(***************************************************************************)
(* #[derive(Deserialize)] for Article and NewsAPIResponse: a String field  *)
(* must be present and a JSON string, a Vec field present and an array of  *)
(* decodable items, an Option<String> field absent, null or a string;      *)
(* members the struct does not name are skipped.                           *)
(***************************************************************************)
Article_ok(obj) ==
    /\ Has(obj, "title") /\ Get(obj, "title").t = "str"
    /\ Has(obj, "url") /\ Get(obj, "url").t = "str"

Article_from(obj) == [title |-> Get(obj, "title").s, url |-> Get(obj, "url").s]

\* As if `articles` carried #[serde(default)]: a missing member decodes to an empty Vec.
NewsAPIResponse_ok_DefaultArticles(obj) ==
    /\ Has(obj, "status") /\ Get(obj, "status").t = "str"
    /\ Has(obj, "articles") =>
          /\ Get(obj, "articles").t = "arr"
          /\ \A i \in 1..Len(Get(obj, "articles").a) :
                Article_ok(Get(obj, "articles").a[i])
    /\ Has(obj, "code") => Get(obj, "code").t \in {"str", "null"}

NewsAPIResponse_ok(obj) ==
    /\ Has(obj, "status") /\ Get(obj, "status").t = "str"
    /\ Has(obj, "articles") /\ Get(obj, "articles").t = "arr"
    /\ \A i \in 1..Len(Get(obj, "articles").a) :
          Article_ok(Get(obj, "articles").a[i])
    /\ Has(obj, "code") => Get(obj, "code").t \in {"str", "null"}

NewsAPIResponse_from(obj) ==
    [status |-> Get(obj, "status").s,
     articles |-> IF Has(obj, "articles")
                  THEN [i \in 1..Len(Get(obj, "articles").a) |->
                           Article_from(Get(obj, "articles").a[i])]
                  ELSE <<>>,
     code |-> IF Has(obj, "code") /\ Get(obj, "code").t = "str"
              THEN Some(Get(obj, "code").s)
              ELSE NoneStr]

(***************************************************************************)
(* Response bodies.  text is "io" (the body cannot be read), "garbage"     *)
(* (read, but no JSON) or "json" (a JSON object, members).                 *)
(***************************************************************************)
Body(members) == [text |-> "json", members |-> members]

ArtA == <<<<"title", Str("A")>>, <<"url", Str("http://x")>>>>

ArtB ==
    <<<<"source", Str("wire")>>, <<"title", Str("B")>>,
      <<"description", Null>>, <<"url", Str("http://y")>>>>

ArtNoUrl == <<<<"title", Str("C")>>>>

BodyOkOne ==
    Body(<<<<"status", Str("ok")>>, <<"articles", Arr(<<ArtA>>)>>, <<"code", Null>>>>)

BodyOkTwo ==
    Body(<<<<"status", Str("ok")>>, <<"totalResults", Num("2")>>,
           <<"articles", Arr(<<ArtB, ArtA>>)>>>>)

BodyOkWithCode ==
    Body(<<<<"status", Str("ok")>>, <<"articles", Arr(<<ArtA>>)>>,
           <<"code", Str("apiKeyDisabled")>>>>)

BodyOkEmpty == Body(<<<<"status", Str("ok")>>, <<"articles", Arr(<<>>)>>>>)

BodyErrDisabled ==
    Body(<<<<"status", Str("error")>>, <<"articles", Arr(<<>>)>>,
           <<"code", Str("apiKeyDisabled")>>>>)

BodyErrRate ==
    Body(<<<<"status", Str("error")>>, <<"articles", Arr(<<ArtA>>)>>,
           <<"code", Str("rateLimited")>>>>)

BodyErrNoCode == Body(<<<<"status", Str("error")>>, <<"articles", Arr(<<>>)>>>>)

BodyErrEmptyCode ==
    Body(<<<<"status", Str("error")>>, <<"articles", Arr(<<>>)>>, <<"code", Str("")>>>>)

BodyUpperOk ==
    Body(<<<<"status", Str("OK")>>, <<"articles", Arr(<<ArtA>>)>>, <<"code", Null>>>>)

\* What the service sends with an error: no articles member.
BodyErrNoArticles ==
    Body(<<<<"status", Str("error")>>, <<"code", Str("apiKeyDisabled")>>,
           <<"message", Str("disabled")>>>>)

BodyOkNoArticles == Body(<<<<"status", Str("ok")>>, <<"code", Null>>>>)

BodyStatusNumber ==
    Body(<<<<"status", Num("1")>>, <<"articles", Arr(<<ArtA>>)>>>>)

BodyArticleNoUrl ==
    Body(<<<<"status", Str("ok")>>, <<"articles", Arr(<<ArtA, ArtNoUrl>>)>>>>)

BodyGarbage == [text |-> "garbage", members |-> <<>>]

BodyUnreadable == [text |-> "io", members |-> <<>>]

DecodableBodies ==
    {BodyOkOne, BodyOkTwo, BodyOkWithCode, BodyOkEmpty, BodyErrDisabled,
     BodyErrRate, BodyErrNoCode, BodyErrEmptyCode, BodyUpperOk}

MalformedBodies ==
    {BodyErrNoArticles, BodyOkNoArticles, BodyStatusNumber, BodyArticleNoUrl,
     BodyGarbage}

Bodies == DecodableBodies \cup MalformedBodies \cup {BodyUnreadable}

(***************************************************************************)
(* The service as one call sees it: conn is the outcome of connecting,     *)
(* http the status code of the response, body its body.                    *)
(***************************************************************************)
HttpCodes == {200, 401}

ConnFailures == {"refused", "timeout", "tls"}

\* No response arrives; nothing is known of a status or a body.
Unreached == [conn : ConnFailures, http : {0}, body : {BodyUnreadable}]

\* A response arrives; its headers, before the body is read.
Heads == [conn : {"ok"}, http : HttpCodes, body : {BodyUnreadable}]

Servers == Unreached \cup [conn : {"ok"}, http : HttpCodes, body : Bodies]

(***************************************************************************)
(* The url crate, as far as prepare_url and the transports use it.         *)
(***************************************************************************)
BASE_URL == <<"https", "://", "newsapi.org", "/", "v2">>

Schemes == {"https", "http"}

Delimiters == {"://", "/", "?"}

NoUrl == [scheme |-> "", host |-> "", path |-> <<>>, query |-> NoneStr]

IsSegment(tok) == tok \notin Delimiters

\* Url::parse: scheme "://" host, then "/"-separated segments, then "?" query.
Url_parse(toks) ==
    IF /\ Len(toks) >= 3
       /\ toks[1] \in Schemes
       /\ toks[2] = "://"
       /\ toks[3] \notin Delimiters
    THEN LET rest == SubSeq(toks, 4, Len(toks))
             qs == {i \in 1..Len(rest) : rest[i] = "?"}
             q == IF qs = {} THEN Len(rest) + 1
                  ELSE CHOOSE i \in qs : \A j \in qs : i <= j
         IN [ok |-> TRUE,
             url |-> [scheme |-> toks[1],
                      host |-> toks[3],
                      path |-> SelectSeq(SubSeq(rest, 1, q - 1), IsSegment),
                      query |-> IF q < Len(rest) THEN Some(rest[q + 1]) ELSE NoneStr]]
    ELSE [ok |-> FALSE, url |-> NoUrl]

\* url.path_segments_mut().unwrap().push(segment)
Url_push(url, segment) == [url EXCEPT !.path = Append(url.path, segment)]

\* url.set_query(Some(q)): the query is replaced, not extended.
Url_set_query(url, q) == [url EXCEPT !.query = Some(q)]

RECURSIVE PathToks(_)
PathToks(path) ==
    IF path = <<>> THEN <<>> ELSE <<"/", Head(path)>> \o PathToks(Tail(path))

\* url.to_string()
Url_to_string(url) ==
    <<url.scheme, "://", url.host>>
        \o (IF url.path = <<>> THEN <<"/">> ELSE PathToks(url.path))
        \o (IF url.query.some THEN <<"?", url.query.v>> ELSE <<>>)

\* The string a lexeme sequence stands for.
RECURSIVE Flat(_)
Flat(toks) == IF toks = <<>> THEN "" ELSE Head(toks) \o Flat(Tail(toks))

(***************************************************************************)
(* EndPoint, Country and the NewsAPI facade                                *)
(***************************************************************************)
EndPoint == {"TopHeadlines"}

Country == {"Us"}

EndPoint_to_string(e) == CASE e = "TopHeadlines" -> "top-headlines"

Country_to_string_Upper(c) == CASE c = "Us" -> "US"

Country_to_string(c) == CASE c = "Us" -> "us"

\* The keys a caller may construct the client with, as character sequences.
ApiKeys == {<<"k", "e", "y">>, <<"k", "\n", "y">>}

\* A header value is accepted by ureq and by reqwest when it holds no line break.
HeaderValueValid(v) == \A i \in 1..Len(v) : v[i] \notin {"\n", "\r"}

NewsAPI_new_KeyDropped(api_key) ==
    [api_key |-> <<>>, endpoint |-> "TopHeadlines", country |-> "Us"]

NewsAPI_new(api_key) ==
    [api_key |-> api_key, endpoint |-> "TopHeadlines", country |-> "Us"]

endpoint(self, e) == [self EXCEPT !.endpoint = e]

country(self, c) == [self EXCEPT !.country = c]

prepare_url(self) ==
    LET p == Url_parse(BASE_URL) IN
    IF ~p.ok THEN [ok |-> FALSE, val |-> <<>>, err |-> FromUrlParseError]
    ELSE LET u1 == Url_push(p.url, EndPoint_to_string(self.endpoint))
             q == "country=" \o Country_to_string(self.country)
             u2 == Url_set_query(u1, q)
         IN [ok |-> TRUE, val |-> Url_to_string(u2), err |-> ""]

(***************************************************************************)
(* What one call did: its Result, the steps it ran (in order), the number  *)
(* of GET requests it put on the wire, and the response it decoded, if any.*)
(***************************************************************************)
NoResp == [some |-> FALSE, v |-> NoResponse]

SomeResp(r) == [some |-> TRUE, v |-> r]

Out(res, trace, gets, resp) ==
    [res |-> res, trace |-> trace, gets |-> gets, resp |-> resp]

NoServer == [conn |-> "none", http |-> 0, body |-> BodyUnreadable]

(***************************************************************************)
(* The error mapper and the status match that ends fetch and fetch_async   *)
(***************************************************************************)
map_response_err_AnyCodeDisabled(code) ==
    IF code.some
    THEN BadRequest("Your API Key was disabled")
    ELSE BadRequest("Unknown error")

map_response_err(code) ==
    IF code.some
    THEN CASE code.v = "apiKeyDisabled" -> BadRequest("Your API Key was disabled")
           [] OTHER -> BadRequest("Unknown error")
    ELSE BadRequest("Unknown error")

\* Success decided by the absence of a code instead of by the status.
match_status_ByCode(response) ==
    IF ~response.code.some THEN Ok(response) ELSE map_response_err(response.code)

\* match response.status.as_str() { "ok" => Ok(response), _ => Err(map_response_err(..)) }
match_status(response) ==
    CASE response.status = "ok" -> Ok(response)
      [] OTHER -> map_response_err(response.code)

(***************************************************************************)
(* ureq (blocking).  call() checks the headers and the URL before it       *)
(* connects, and turns a response with a status of 400 or more into an     *)
(* Err(ureq::Error::Status).                                               *)
(***************************************************************************)
\* A call() that hands every response back, whatever its status.
ureq_call_AnyStatus(url, headers, srv) ==
    IF \E i \in 1..Len(headers) : ~HeaderValueValid(headers[i])
    THEN [ok |-> FALSE, gets |-> 0, body |-> BodyUnreadable]
    ELSE IF ~Url_parse(url).ok
    THEN [ok |-> FALSE, gets |-> 0, body |-> BodyUnreadable]
    ELSE IF srv.conn # "ok"
    THEN [ok |-> FALSE, gets |-> 1, body |-> BodyUnreadable]
    ELSE [ok |-> TRUE, gets |-> 1, body |-> srv.body]

ureq_call(url, headers, srv) ==
    IF \E i \in 1..Len(headers) : ~HeaderValueValid(headers[i])
    THEN [ok |-> FALSE, gets |-> 0, body |-> BodyUnreadable]
    ELSE IF ~Url_parse(url).ok
    THEN [ok |-> FALSE, gets |-> 0, body |-> BodyUnreadable]
    ELSE IF srv.conn # "ok"
    THEN [ok |-> FALSE, gets |-> 1, body |-> BodyUnreadable]
    ELSE IF srv.http >= 400
    THEN [ok |-> FALSE, gets |-> 1, body |-> BodyUnreadable]
    ELSE [ok |-> TRUE, gets |-> 1, body |-> srv.body]

\* Response::into_json::<NewsAPIResponse>() returns io::Result: a body that cannot
\* be read and a body that does not deserialize both come back as an io::Error.
into_json(body) ==
    IF body.text = "json" /\ NewsAPIResponse_ok(body.members)
    THEN [ok |-> TRUE, val |-> NewsAPIResponse_from(body.members), err |-> ""]
    ELSE [ok |-> FALSE, val |-> NoResponse, err |-> FromIoError]

\* Response::into_string()
into_string(body) ==
    IF body.text = "io"
    THEN [ok |-> FALSE, val |-> body, err |-> "ResponseToStringFailed"]
    ELSE [ok |-> TRUE, val |-> body, err |-> ""]

\* serde_json::from_str::<NewsAPIResponse>(&text)
from_str(text) ==
    IF text.text = "json" /\ NewsAPIResponse_ok(text.members)
    THEN [ok |-> TRUE, val |-> NewsAPIResponse_from(text.members), err |-> ""]
    ELSE [ok |-> FALSE, val |-> NoResponse, err |-> "ArticlesParsingFailed"]

(***************************************************************************)
(* NewsAPI::fetch                                                          *)
(***************************************************************************)
fetch(self, srv) ==
    LET url == prepare_url(self) IN
    IF ~url.ok THEN Out(Err(url.err), <<"prepare_url">>, 0, NoResp)
    ELSE
    LET r == ureq_call(url.val, <<self.api_key>>, srv) IN
    IF ~r.ok THEN Out(Err(FromUreqError), <<"prepare_url", "call">>, r.gets, NoResp)
    ELSE
    LET d == into_json(r.body) IN
    IF ~d.ok
    THEN Out(Err(d.err), <<"prepare_url", "call", "into_json">>, r.gets, NoResp)
    ELSE Out(match_status(d.val),
             <<"prepare_url", "call", "into_json", "match_status">>,
             r.gets, SomeResp(d.val))

(***************************************************************************)
(* get_articles                                                            *)
(***************************************************************************)
\* A get_articles that ends with the status match of fetch.
get_articles_return_Gated(articles) == match_status(articles)

\* Ok(articles)
get_articles_return(articles) == Ok(articles)

get_articles(url, srv) ==
    LET r == ureq_call(url, <<>>, srv) IN
    IF ~r.ok THEN Out(Err("RequestFailed"), <<"call">>, r.gets, NoResp)
    ELSE
    LET t == into_string(r.body) IN
    IF ~t.ok THEN Out(Err(t.err), <<"call", "into_string">>, r.gets, NoResp)
    ELSE
    LET d == from_str(t.val) IN
    IF ~d.ok
    THEN Out(Err(d.err), <<"call", "into_string", "from_str">>, r.gets, NoResp)
    ELSE Out(get_articles_return(d.val),
             <<"call", "into_string", "from_str">>, r.gets, SomeResp(d.val))

(***************************************************************************)
(* NewsAPI::fetch_async, cut at its two await points.  reqwest's execute   *)
(* fails only when no response arrives: a response is handed back whatever *)
(* its status.                                                             *)
(***************************************************************************)
\* .build().map_err(|e| NewsAPIError::AsyncRequestFailed(e))
build_map_err == "AsyncRequestFailed"

\* The decode failure reported as the blocking free function reports it.
json_map_err_Parsing == "ArticlesParsingFailed"

\* .json().await.map_err(|e| NewsAPIError::AsyncRequestFailed(e))
json_map_err == "AsyncRequestFailed"

\* Up to the first await: prepare_url, then the request builder.
fetch_async_build(self) ==
    LET url == prepare_url(self) IN
    IF ~url.ok
    THEN [ok |-> FALSE, url |-> <<>>,
          out |-> Out(Err(url.err), <<"prepare_url">>, 0, NoResp)]
    ELSE IF ~HeaderValueValid(self.api_key)
    THEN [ok |-> FALSE, url |-> url.val,
          out |-> Out(Err(build_map_err), <<"prepare_url", "build">>, 0, NoResp)]
    ELSE [ok |-> TRUE, url |-> url.val,
          out |-> Out(Err(""), <<"prepare_url", "build">>, 0, NoResp)]

\* client.execute(request).await?
fetch_async_execute(srv) ==
    IF srv.conn # "ok"
    THEN [ok |-> FALSE,
          out |-> Out(Err(FromReqwestError),
                      <<"prepare_url", "build", "execute">>, 1, NoResp)]
    ELSE [ok |-> TRUE,
          out |-> Out(Err(""), <<"prepare_url", "build", "execute">>, 1, NoResp)]

\* .json().await.map_err(..)?, then the status match
fetch_async_json(body) ==
    IF body.text = "json" /\ NewsAPIResponse_ok(body.members)
    THEN LET response == NewsAPIResponse_from(body.members) IN
         Out(match_status(response),
             <<"prepare_url", "build", "execute", "json", "match_status">>,
             1, SomeResp(response))
    ELSE Out(Err(json_map_err),
             <<"prepare_url", "build", "execute", "json">>, 1, NoResp)

(***************************************************************************)
(* State.  client is the NewsAPI value and key0 the key it was constructed *)
(* with; tasks are the fetch_async futures (idle, or suspended at the      *)
(* await of execute or of json); ret is what the last call returned.       *)
(***************************************************************************)
VARIABLES client, key0, tasks, ret

vars == <<client, key0, tasks, ret>>

Calls == 1..MaxCalls

Idle == [pc |-> "idle", http |-> 0, url |-> <<>>]

NoOut == Out(Err(""), <<>>, 0, NoResp)

\* The URLs get_articles is called with: an absolute one and one without a scheme.
RelativeUrl == <<"newsapi.org", "/", "v2">>

Urls ==
    {<<"https", "://", "newsapi.org", "/", "v2", "/", "top-headlines", "?", "country=us">>,
     RelativeUrl}

Returned(op, url, srv, out) ==
    [op |-> op, url |-> url, srv |-> srv, res |-> out.res, trace |-> out.trace,
     gets |-> out.gets, resp |-> out.resp]

AllIdle == \A i \in Calls : tasks[i].pc = "idle"

Init ==
    /\ key0 \in ApiKeys
    /\ client = NewsAPI_new(key0)
    /\ tasks = [i \in Calls |-> Idle]
    /\ ret = Returned("new", <<>>, NoServer, NoOut)

\* client.endpoint(e): needs &mut self, so no future borrows the client.
SetEndpoint(e) ==
    /\ AllIdle
    /\ client' = endpoint(client, e)
    /\ ret' = Returned("endpoint", <<>>, NoServer, NoOut)
    /\ UNCHANGED <<key0, tasks>>

\* client.country(c)
SetCountry(c) ==
    /\ AllIdle
    /\ client' = country(client, c)
    /\ ret' = Returned("country", <<>>, NoServer, NoOut)
    /\ UNCHANGED <<key0, tasks>>

\* self.prepare_url()
PrepareUrl ==
    /\ LET url == prepare_url(client) IN
       ret' = Returned("prepare_url", url.val, NoServer,
                       Out(Err(url.err), <<"prepare_url">>, 0, NoResp))
    /\ UNCHANGED <<client, key0, tasks>>

\* client.fetch(): blocking, so one step.
Fetch(srv) ==
    /\ ret' = Returned("fetch", prepare_url(client).val, srv, fetch(client, srv))
    /\ UNCHANGED <<client, key0, tasks>>

\* get_articles(url)
GetArticles(url, srv) ==
    /\ ret' = Returned("get_articles", url, srv, get_articles(url, srv))
    /\ UNCHANGED <<client, key0, tasks>>

\* client.fetch_async() polled up to `client.execute(request).await`.
FetchAsyncStart(i) ==
    /\ tasks[i].pc = "idle"
    /\ LET b == fetch_async_build(client) IN
       IF b.ok
       THEN /\ tasks' = [tasks EXCEPT ![i] = [pc |-> "execute", http |-> 0, url |-> b.url]]
            /\ UNCHANGED ret
       ELSE /\ ret' = Returned("fetch_async", b.url, NoServer, b.out)
            /\ UNCHANGED tasks
    /\ UNCHANGED <<client, key0>>

\* The await of execute resumes: the request failed, or a response arrived.
FetchAsyncExecute(i, srv) ==
    /\ tasks[i].pc = "execute"
    /\ LET e == fetch_async_execute(srv) IN
       IF e.ok
       THEN /\ tasks' = [tasks EXCEPT ![i] = [pc |-> "json", http |-> srv.http, url |-> @.url]]
            /\ UNCHANGED ret
       ELSE /\ ret' = Returned("fetch_async", tasks[i].url, srv, e.out)
            /\ tasks' = [tasks EXCEPT ![i] = Idle]
    /\ UNCHANGED <<client, key0>>

\* The await of json resumes with the body; the future completes.
FetchAsyncJson(i, body) ==
    /\ tasks[i].pc = "json"
    /\ ret' = Returned("fetch_async", tasks[i].url,
                       [conn |-> "ok", http |-> tasks[i].http, body |-> body],
                       fetch_async_json(body))
    /\ tasks' = [tasks EXCEPT ![i] = Idle]
    /\ UNCHANGED <<client, key0>>

Next ==
    \/ \E e \in EndPoint : SetEndpoint(e)
    \/ \E c \in Country : SetCountry(c)
    \/ PrepareUrl
    \/ \E srv \in Servers : Fetch(srv)
    \/ \E url \in Urls, srv \in Servers : GetArticles(url, srv)
    \/ \E i \in Calls : FetchAsyncStart(i)
    \/ \E i \in Calls, srv \in Unreached \cup Heads : FetchAsyncExecute(i, srv)
    \/ \E i \in Calls, body \in Bodies : FetchAsyncJson(i, body)

Spec == Init /\ [][Next]_vars

(***************************************************************************)
(* Properties.  They read the inputs of the last call (client, ret.url,    *)
(* ret.srv) and what it returned, and state the expected outcome from the  *)
(* inputs alone.                                                           *)
(***************************************************************************)
KeyValid == \A i \in 1..Len(client.api_key) : client.api_key[i] \notin {"\n", "\r"}

Facade == {"fetch", "fetch_async"}

WireStatus == Get(ret.srv.body.members, "status").s

WireArticles == Get(ret.srv.body.members, "articles").a

\* The response the caller got is the body's: status, articles in order, code.
SameAsWire(r) ==
    /\ r.status = WireStatus
    /\ Len(r.articles) = Len(WireArticles)
    /\ \A i \in 1..Len(WireArticles) :
          /\ r.articles[i].title = Get(WireArticles[i], "title").s
          /\ r.articles[i].url = Get(WireArticles[i], "url").s
    /\ r.code.some <=> (ret.srv.body \in {BodyOkWithCode, BodyErrDisabled,
                                           BodyErrRate, BodyErrEmptyCode})
    /\ r.code.some => r.code.v = Get(ret.srv.body.members, "code").s

\* C1: whenever fetch or fetch_async decoded a response body, the call returns Ok
\* with exactly that response if and only if its status is "ok", whatever its code,
\* and returns Err(BadRequest) if and only if the status is anything else.
C1_StatusAuthoritative ==
    (ret.op \in Facade /\ ret.resp.some) =>
        /\ ret.srv.body \in DecodableBodies
        /\ SameAsWire(ret.resp.v)
        /\ ret.res.ok <=> (WireStatus = "ok")
        /\ ret.res.ok => ret.res.val = ret.resp.v
        /\ (WireStatus # "ok") <=> (~ret.res.ok /\ ret.res.err = "BadRequest")

\* fetch succeeded on a body whose status is "ok" and whose code is "apiKeyDisabled".
C1_Witness ==
    /\ ret.op = "fetch"
    /\ ret.srv.body = BodyOkWithCode
    /\ ret.res.ok
    /\ ret.res.val.code = Some("apiKeyDisabled")

\* C2: for every code of a decoded response whose status is not "ok" (absent, null,
\* "apiKeyDisabled", "rateLimited", the empty string) the error is a BadRequest with
\* a non-empty reason: "Your API Key was disabled" exactly for Some("apiKeyDisabled"),
\* "Unknown error" otherwise, and no other variant.
C2_ErrorMapperExact ==
    (ret.op \in Facade /\ ret.resp.some /\ WireStatus # "ok") =>
        /\ ~ret.res.ok
        /\ ret.res.err = "BadRequest"
        /\ ret.res.reason # ""
        /\ ret.res.reason =
              IF ret.srv.body = BodyErrDisabled
              THEN "Your API Key was disabled"
              ELSE "Unknown error"

\* The mapper ran on an unrecognised code.
C2_Witness ==
    /\ ret.op = "fetch"
    /\ ret.srv.body = BodyErrRate
    /\ ret.resp.v.code = Some("rateLimited")
    /\ ret.res.reason = "Unknown error"

\* C3: whenever the GET of fetch succeeds and the body does not decode, fetch fails
\* with ArticlesParsingFailed.
C3_MalformedIsParsingFailed ==
    (/\ ret.op = "fetch"
     /\ KeyValid
     /\ ret.srv.conn = "ok"
     /\ ret.srv.http = 200
     /\ ret.srv.body \in MalformedBodies) =>
        (~ret.res.ok /\ ret.res.err = "ArticlesParsingFailed")

C5_AsyncAgreesWithFetch ==
    (ret.op = "fetch_async") =>
        LET sync == fetch(client, ret.srv).res IN
        /\ sync.ok <=> ret.res.ok
        /\ (sync.ok /\ ret.res.ok) => sync.val = ret.res.val
        /\ (/\ ret.srv.conn = "ok"
            /\ ret.srv.body \in DecodableBodies
            /\ WireStatus # "ok") =>
              /\ sync.err = "BadRequest"
              /\ ret.res.err = "BadRequest"
              /\ sync.reason = ret.res.reason

\* C6: get_articles never runs the error mapper: a GET that succeeds with a
\* decodable body gives Ok(response) whatever the status; the failures are
\* RequestFailed, then ResponseToStringFailed, then ArticlesParsingFailed.
C6_GetArticlesRaw ==
    (ret.op = "get_articles") =>
        /\ ret.res.err # "BadRequest"
        /\ IF \/ ret.url = RelativeUrl
              \/ ret.srv.conn \in ConnFailures
              \/ ret.srv.http \notin 200..299
           THEN ~ret.res.ok /\ ret.res.err = "RequestFailed"
           ELSE IF ret.srv.body = BodyUnreadable
           THEN ~ret.res.ok /\ ret.res.err = "ResponseToStringFailed"
           ELSE IF ret.srv.body \in MalformedBodies
           THEN ~ret.res.ok /\ ret.res.err = "ArticlesParsingFailed"
           ELSE ret.res.ok /\ SameAsWire(ret.res.val)

\* get_articles returned Ok with a response whose status is "error".
C6_Witness ==
    /\ ret.op = "get_articles"
    /\ ret.srv.body = BodyErrDisabled
    /\ ret.res.ok
    /\ ret.res.val.status = "error"
    /\ ret.res.val.code = Some("apiKeyDisabled")

\* C7: with endpoint TopHeadlines and country Us, every URL that prepare_url builds
\* (alone, or for fetch and fetch_async) is exactly
\* "https://newsapi.org/v2/top-headlines?country=us": the endpoint is one more path
\* segment after the base path and the query is "country=us" alone.
C7_UrlExact ==
    (/\ ret.op \in {"prepare_url", "fetch", "fetch_async"}
     /\ client.endpoint = "TopHeadlines"
     /\ client.country = "Us") =>
        /\ Flat(ret.url) = "https://newsapi.org/v2/top-headlines?country=us"
        /\ ret.url = BASE_URL \o <<"/", "top-headlines", "?", "country=us">>

\* prepare_url returned, after a fetch_async had been started on the same client.
C7_Witness ==
    /\ ret.op = "prepare_url"
    /\ tasks[1].pc = "execute"
    /\ ret.url # <<>>

\* C8: every failure of fetch_async at building the request, at sending it and at
\* reading or decoding the body is AsyncRequestFailed; the only other errors are
\* UrlParseFailed, before any request, and BadRequest, after a decode.
C8_AsyncErrors ==
    (ret.op = "fetch_async") =>
        /\ ret.res.err \notin
              {"RequestFailed", "ResponseToStringFailed", "ArticlesParsingFailed"}
        /\ (\/ ~KeyValid
            \/ ret.srv.conn \in ConnFailures
            \/ ret.srv.body \notin DecodableBodies) =>
              (~ret.res.ok /\ ret.res.err = "AsyncRequestFailed")
        /\ ~ret.res.ok => ret.res.err \in {"AsyncRequestFailed", "UrlParseFailed", "BadRequest"}
        /\ ret.res.err = "UrlParseFailed" => (ret.trace = <<"prepare_url">> /\ ret.gets = 0)
        /\ ret.res.err = "BadRequest" => (ret.resp.some /\ WireStatus # "ok")

\* fetch_async read a body that has no articles member.
C8_Witness ==
    /\ ret.op = "fetch_async"
    /\ ret.srv.body = BodyErrNoArticles
    /\ ret.res.err = "AsyncRequestFailed"
    /\ ret.trace = <<"prepare_url", "build", "execute", "json">>

Pipeline(op) ==
    CASE op = "fetch" -> <<"prepare_url", "call", "into_json", "match_status">>
      [] op = "fetch_async" -> <<"prepare_url", "build", "execute", "json", "match_status">>
      [] op = "get_articles" -> <<"call", "into_string", "from_str">>

\* How many steps of its pipeline the last call must have run: up to the first
\* one that fails on these inputs.
StepsDue ==
    CASE ret.op = "fetch" ->
            IF ~KeyValid \/ ret.srv.conn # "ok" \/ ret.srv.http >= 400 THEN 2
            ELSE IF ret.srv.body \notin DecodableBodies THEN 3
            ELSE 4
      [] ret.op = "fetch_async" ->
            IF ~KeyValid THEN 2
            ELSE IF ret.srv.conn # "ok" THEN 3
            ELSE IF ret.srv.body \notin DecodableBodies THEN 4
            ELSE 5
      [] ret.op = "get_articles" ->
            IF ret.url = RelativeUrl \/ ret.srv.conn # "ok" \/ ret.srv.http >= 400 THEN 1
            ELSE IF ret.srv.body = BodyUnreadable THEN 2
            ELSE 3

C10_ConfigFrame ==
    /\ client = [api_key |-> key0, endpoint |-> "TopHeadlines", country |-> "Us"]
    /\ [][/\ client'.api_key = client.api_key
          /\ client'.endpoint # client.endpoint =>
                (ret'.op = "endpoint" /\ client'.country = client.country)
          /\ client'.country # client.country =>
                (ret'.op = "country" /\ client'.endpoint = client.endpoint)
          /\ ret'.op \notin {"endpoint", "country"} => client' = client]_vars

\* A blocking fetch returned while two fetch_async futures were suspended, and
\* the client is as constructed.
C10_Witness ==
    /\ ret.op = "fetch"
    /\ tasks[1].pc = "json"
    /\ tasks[2].pc = "execute"
    /\ client = [api_key |-> key0, endpoint |-> "TopHeadlines", country |-> "Us"]

====
